---------------------------- MODULE Spec2Model ----------------------------
(***************************************************************************)
(* A model of RRA.c (Robust Rank Aggregation): main, ReadFile,             *)
(* ProcessGroups, ComputeLoValue, ComputeFDR, QuickSortGroupByLoValue and  *)
(* SaveGroupInfo.                                                          *)
(*                                                                         *)
(* A C double is modelled as an exact rational <<numerator, denominator>>  *)
(* in lowest terms with a positive denominator; rounding is not modelled.  *)
(* C arrays are sequences, indexed from 0 as in the source through At.     *)
(***************************************************************************)
EXTENDS Integers, Sequences, FiniteSets, TLC

VARIABLES
    pc,             \* position of main: the stage about to run, or "done"
    argv,           \* command line: [io: both -i and -o given, p: the -p value]
    file,           \* the input file: NoFile, or its records after the header
    outOpens,       \* whether fopen(outputFileName, "w") succeeds
    mallocMayFail,  \* whether malloc in ComputeLoValue may return NULL
    maxPercentile,  \* main's maxPercentile
    groups,         \* GROUP_STRUCT array (the first groupNum entries)
    groupNum,
    lists,          \* LIST_STRUCT array (the first listNum entries)
    listNum,
    numOfRandPass,  \* ComputeFDR's parameter
    scanPass,       \* ComputeFDR's locals
    randLoValue,
    simI,
    simJ,
    calls,          \* history: the stages main has called, with what each returned
    loRets,         \* history: what each ComputeLoValue call of the running stage returned
    sortTouched,    \* history: the indices QuickSortGroupByLoValue accessed
    output,         \* the output file: NoOutput, or the rows written
    mainRet,        \* main's return value, Running until it returns
    loIn,           \* the percentile array handed to ComputeLoValue (its caller's copy)
    loOut           \* per cutoff: what ComputeLoValue produced for loIn

vars == <<pc, argv, file, outOpens, mallocMayFail, maxPercentile, groups, groupNum,
          lists, listNum, numOfRandPass, scanPass, randLoValue, simI, simJ, calls,
          loRets, sortTouched, output, mainRet, loIn, loOut>>

---------------------------------------------------------------------------
(* Bounds of the model.                                                    *)

\* percentiles and cutoffs are drawn from the grid k/Grid
Grid == 3
\* longest percentile array handed to ComputeLoValue on its own
MaxLoLen == 3
\* most records of an input file of a whole run
MaxRecords == 3
\* most records of an input file of a run in which malloc may fail
MaxOomRecords == 2
\* ProcessGroups on its own: most rows, and raw values v/(2*EpsDen), v in
\* 0..MaxPctValue, so that values 1 or 2 steps apart are within the bracket
MaxPctRecords == 3
MaxPctValue == 5
\* ComputeFDR on its own: most rows (so most groups)
MaxFdrRecords == 3
\* the sorting step of ComputeFDR on its own: most groups
MaxSortLen == 5

---------------------------------------------------------------------------
(* Program constants.                                                      *)

\* the bracket 0.000000001 of lines 475, 476, 587, 588 is 1/EpsDen
EpsDen == 100
\* the capacities and the pass count, scaled down from 100000, 1000 and 100
MAX_GROUP_NUM == 3
MAX_LIST_NUM == 3
RAND_PASS_NUM == 1

---------------------------------------------------------------------------
(* Doubles as exact rationals.                                             *)

\* a file that cannot be opened, and one holding the given rows
NoFile == [exists |-> FALSE, rows |-> <<>>]
FileOf(rows) == [exists |-> TRUE, rows |-> rows]
\* main has not returned; main returned code
Running == <<>>
Returned(code) == <<code>>
\* a double that was never assigned
Uninit == <<0, 0>>

Abs(n) == IF n < 0 THEN -n ELSE n

RECURSIVE Gcd(_, _)
Gcd(a, b) == IF b = 0 THEN a ELSE Gcd(b, a % b)

Norm(n, d) ==
    LET g == Gcd(Abs(n), d)
    IN  <<n \div g, d \div g>>

\* a/b < c/d for b, d > 0, by continued fractions (no cross products)
RECURSIVE RatLt(_, _, _, _)
RatLt(a, b, c, d) ==
    LET q1 == a \div b
        q2 == c \div d
        r1 == a % b
        r2 == c % d
    IN  IF q1 # q2 THEN q1 < q2
        ELSE IF r2 = 0 THEN FALSE
        ELSE IF r1 = 0 THEN TRUE
        ELSE RatLt(d, r2, b, r1)

DLt(x, y) == RatLt(x[1], x[2], y[1], y[2])
DLe(x, y) == ~DLt(y, x)
DAdd(x, y) == Norm(x[1] * y[2] + y[1] * x[2], x[2] * y[2])
DSub(x, y) == Norm(x[1] * y[2] - y[1] * x[2], x[2] * y[2])
DMin(x, y) == IF DLt(y, x) THEN y ELSE x

Zero == <<0, 1>>
One == <<1, 1>>
EPS == <<1, EpsDen>>

\* a[i] of a C array
At(a, i) == a[i + 1]

IsAscending(s) == \A k \in 1..(Len(s) - 1) : DLe(s[k], s[k + 1])

SameElements(s, t) ==
    /\ Len(s) = Len(t)
    /\ \A x \in {s[k] : k \in 1..Len(s)} \cup {t[k] : k \in 1..Len(t)} :
          Cardinality({k \in 1..Len(s) : s[k] = x})
              = Cardinality({k \in 1..Len(t) : t[k] = x})

RECURSIVE Pow(_, _)
Pow(b, e) == IF e = 0 THEN 1 ELSE b * Pow(b, e - 1)

RECURSIVE Choose(_, _)
Choose(n, k) ==
    IF k = 0 \/ k = n THEN 1 ELSE Choose(n - 1, k - 1) + Choose(n - 1, k)

---------------------------------------------------------------------------
(* The numerical primitives of math_api.h, which RRA.c only calls.         *)

RECURSIVE InsertSorted(_, _)
InsertSorted(s, x) ==
    IF s = <<>> THEN <<x>>
    ELSE IF DLe(x, Head(s)) THEN <<x>> \o s
    ELSE <<Head(s)>> \o InsertSorted(Tail(s), x)

RECURSIVE SortAsc(_)
SortAsc(s) == IF s = <<>> THEN <<>> ELSE InsertSorted(SortAsc(Tail(s)), Head(s))

\* QuicksortF(a, lo, hi): a with a[lo..hi] sorted ascending
QuicksortF(a, lo, hi) ==
    IF hi < lo THEN a
    ELSE SubSeq(a, 1, lo) \o SortAsc(SubSeq(a, lo + 1, hi + 1))
             \o SubSeq(a, hi + 2, Len(a))

\* bTreeSearchingF(x, a, lo, hi): how many of the sorted a[lo..hi] are < x
bTreeSearchingF(x, a, lo, hi) == Cardinality({k \in lo..hi : DLt(At(a, k), x)})

RECURSIVE BinomialTail(_, _, _, _)
BinomialTail(n, k, p, q) ==
    IF k > n THEN 0
    ELSE Choose(n, k) * Pow(p, k) * Pow(q - p, n - k) + BinomialTail(n, k + 1, p, q)

\* BetaNoncentralCdf(a, b, 0.0, x, CDF_MAX_ERROR) for whole a, b >= 1: the
\* central Beta(a, b) CDF at x, which is the chance that at least a of
\* a+b-1 uniform draws fall at or below x.
BetaNoncentralCdf(a, b, lambda, x) ==
    LET n == a + b - 1
    IN  Norm(BinomialTail(n, a, x[1], x[2]), Pow(x[2], n))

---------------------------------------------------------------------------
(* ComputeLoValue, lines 489-532.                                          *)

\* line 515: the scan stops at index i
LoBreak_CutoffInverted(tmpArray, i, maxP) == DLe(At(tmpArray, i), maxP) /\ i > 0

LoBreak_NoFirstGuard(tmpArray, i, maxP) == DLt(maxP, At(tmpArray, i))

LoBreak(tmpArray, i, maxP) == DLt(maxP, At(tmpArray, i)) /\ i > 0

\* lines 513-524: the scan from index i on, with the minimum so far
RECURSIVE LoScan(_, _, _, _, _, _)
LoScan(tmpArray, num, maxP, i, tmpLoValue, scanned) ==
    IF i >= num \/ LoBreak(tmpArray, i, maxP)
    THEN [loValue |-> tmpLoValue, scanned |-> scanned]
    ELSE LET tmpF == BetaNoncentralCdf(i + 1, num - i, 0, At(tmpArray, i))
         IN  LoScan(tmpArray, num, maxP, i + 1,
                    IF DLt(tmpF, tmpLoValue) THEN tmpF ELSE tmpLoValue,
                    scanned \cup {i})

\* ret: the return value; wrote: whether *loValue was assigned; percentiles:
\* the caller's array afterwards; scanned: the indices whose CDF was evaluated
ComputeLoValue(percentiles, num, maxP, mallocOk) ==
    IF ~mallocOk
    THEN [ret |-> -1, wrote |-> FALSE, loValue |-> Uninit,
          percentiles |-> percentiles, scanned |-> {}]
    ELSE LET tmpArray == QuicksortF(percentiles, 0, num - 1)
             r == LoScan(tmpArray, num, maxP, 0, One, {})
         IN  [ret |-> 0, wrote |-> TRUE, loValue |-> r.loValue,
              percentiles |-> percentiles, scanned |-> r.scanned]

---------------------------------------------------------------------------
(* ReadFile, lines 218-412.  A file is the sequence of its data rows, each *)
(* [group, list, value]; names matter only through strcmp, so they are     *)
(* numbers.  The header row and the tokenizer are not modelled.            *)

\* lines 278-284, 302-308: the index of the entry called name, or Len(table)
FindName(table, name) ==
    IF \E i \in 1..Len(table) : table[i].name = name
    THEN (CHOOSE i \in 1..Len(table) :
              /\ table[i].name = name
              /\ \A k \in 1..(i - 1) : table[k].name # name) - 1
    ELSE Len(table)

\* lines 272-330: the counting pass from row k on; gs and ls are the name
\* tables with their item counts
RECURSIVE CountPass(_, _, _, _, _, _, _)
CountPass(rows, k, gs, ls, totalItemNum, maxGroupNum, maxListNum) ==
    IF k > Len(rows)
    THEN [ret |-> totalItemNum, gs |-> gs, ls |-> ls]
    ELSE LET gi == FindName(gs, rows[k].group)
             gs2 == IF gi >= Len(gs)
                    THEN Append(gs, [name |-> rows[k].group, itemNum |-> 1])
                    ELSE [gs EXCEPT ![gi + 1].itemNum = @ + 1]
             li == FindName(ls, rows[k].list)
             ls2 == IF li >= Len(ls)
                    THEN Append(ls, [name |-> rows[k].list, itemNum |-> 1])
                    ELSE [ls EXCEPT ![li + 1].itemNum = @ + 1]
         IN  IF gi >= Len(gs) /\ Len(gs2) >= maxGroupNum
             THEN [ret |-> -1, gs |-> gs2, ls |-> ls]
             ELSE IF li >= Len(ls) /\ Len(ls2) >= maxListNum
             THEN [ret |-> -1, gs |-> gs2, ls |-> ls2]
             ELSE CountPass(rows, k + 1, gs2, ls2, totalItemNum + 1,
                            maxGroupNum, maxListNum)

\* lines 334-338, 362-398: group i's items, in file order
ItemsOf(rows, gs, ls, gname) ==
    LET mine == SelectSeq([k \in 1..Len(rows) |-> [row |-> rows[k], at |-> k]],
                          LAMBDA e : e.row.group = gname)
    IN  [k \in 1..Len(mine) |->
            [name |-> mine[k].at,
             listIndex |-> FindName(ls, mine[k].row.list),
             value |-> mine[k].row.value,
             percentile |-> Uninit]]

\* lines 340-344, 393-394: list j's values, in file order
ValuesOf(rows, lname) ==
    LET mine == SelectSeq(rows, LAMBDA r : r.list = lname)
    IN  [k \in 1..Len(mine) |-> mine[k].value]

ReadFile(fileName, maxGroupNum, maxListNum) ==
    IF ~fileName.exists
    THEN [ret |-> -1, groups |-> <<>>, groupNum |-> 0, lists |-> <<>>, listNum |-> 0]
    ELSE LET c == CountPass(fileName.rows, 1, <<>>, <<>>, 0, maxGroupNum, maxListNum)
         IN  IF c.ret < 0
             THEN [ret |-> -1, groups |-> <<>>, groupNum |-> 0,
                   lists |-> <<>>, listNum |-> 0]
             ELSE [ret |-> c.ret,
                   groups |-> [i \in 1..Len(c.gs) |->
                                  [name |-> c.gs[i].name,
                                   items |-> ItemsOf(fileName.rows, c.gs, c.ls, c.gs[i].name),
                                   itemNum |-> c.gs[i].itemNum,
                                   loValue |-> Uninit,
                                   fdr |-> Uninit]],
                   groupNum |-> Len(c.gs),
                   lists |-> [j \in 1..Len(c.ls) |->
                                 [name |-> c.ls[j].name,
                                  values |-> ValuesOf(fileName.rows, c.ls[j].name),
                                  itemNum |-> c.ls[j].itemNum]],
                   listNum |-> Len(c.ls)]

---------------------------------------------------------------------------
(* ProcessGroups, lines 441-486.                                           *)

\* lines 475-476: the two bracketing searches for one item
ItemIndex1(item, list) ==
    bTreeSearchingF(DSub(item.value, EPS), list.values, 0, list.itemNum - 1)

ItemIndex2(item, list) ==
    bTreeSearchingF(DAdd(item.value, EPS), list.values, 0, list.itemNum - 1)

\* line 478
Percentile_NoPlusOne(index1, index2, itemNum) == Norm(index1 + index2, itemNum * 2)

Percentile_UpperOnly(index1, index2, itemNum) == Norm(2 * index2, itemNum * 2)

Percentile(index1, index2, itemNum) == Norm(index1 + index2 + 1, itemNum * 2)

\* aborted: assert(maxItemPerGroup>0) of line 458 failed.
\* mallocOks[i] is whether malloc succeeds inside the ComputeLoValue call for
\* group i; junk[i] is what groups[i].loValue, never assigned since the array
\* was allocated, then holds.  rets are the ignored return values of line 482.
ProcessGroups(gs, gNum, ls, lNum, maxP, mallocOks, junk) ==
    IF \A i \in 1..gNum : gs[i].itemNum <= 0
    THEN [ret |-> 0, aborted |-> TRUE, groups |-> gs, lists |-> ls, rets |-> <<>>]
    ELSE LET sorted == [j \in 1..lNum |->
                           [ls[j] EXCEPT !.values = QuicksortF(@, 0, ls[j].itemNum - 1)]]
             withPct(g) ==
                 [k \in 1..g.itemNum |->
                     LET l == At(sorted, g.items[k].listIndex)
                     IN  [g.items[k] EXCEPT !.percentile =
                              Percentile(ItemIndex1(g.items[k], l),
                                         ItemIndex2(g.items[k], l), l.itemNum)]]
             lo(i) ==
                 LET items == withPct(gs[i])
                 IN  ComputeLoValue([k \in 1..Len(items) |-> items[k].percentile],
                                    gs[i].itemNum, maxP, mallocOks[i])
         IN  [ret |-> 1, aborted |-> FALSE,
              groups |-> [i \in 1..gNum |->
                             [gs[i] EXCEPT !.items = withPct(gs[i]),
                                           !.loValue = IF lo(i).wrote THEN lo(i).loValue
                                                       ELSE junk[i]]],
              lists |-> sorted,
              rets |-> [i \in 1..gNum |-> lo(i).ret]]

---------------------------------------------------------------------------
(* QuickSortGroupByLoValue, lines 612-647.  Every index the code reads or  *)
(* writes is recorded in touched; an access outside the array ends the     *)
(* loop it is in, with the index recorded.                                 *)

\* C's integer division, which truncates toward zero
CDiv(a, b) == IF a >= 0 THEN a \div b ELSE -((-a) \div b)

InArray(g, i) == i >= 0 /\ i < Len(g)

\* lines 626-629: where i stands when the loop ends
RECURSIVE ScanUp(_, _, _, _, _)
ScanUp(g, i, j, x, touched) ==
    IF InArray(g, i) /\ DLt(At(g, i).loValue, x) /\ i <= j
    THEN ScanUp(g, i + 1, j, x, touched \cup {i})
    ELSE [i |-> i, touched |-> touched \cup {i}]

\* lines 630-633: where j stands when the loop ends
RECURSIVE ScanDown(_, _, _, _, _)
ScanDown(g, i, j, x, touched) ==
    IF InArray(g, j) /\ DLt(x, At(g, j).loValue) /\ i <= j
    THEN ScanDown(g, i, j - 1, x, touched \cup {j})
    ELSE [i |-> i, j |-> j, touched |-> touched \cup {j}]

ScanDownAfter(g, j, x, up) == ScanDown(g, up.i, j, x, up.touched)

\* lines 636-638
Swap(g, i, j) == [g EXCEPT ![i + 1] = At(g, j), ![j + 1] = At(g, i)]

\* lines 624-641: the partition loop, entered with i and j
RECURSIVE Partition(_, _, _, _, _)

\* lines 634-640, with s.i and s.j where the two scans ended
SwapAndGoOn(g, x, s) ==
    IF s.i <= s.j
    THEN IF InArray(g, s.i) /\ InArray(g, s.j)
         THEN Partition(Swap(g, s.i, s.j), s.i + 1, s.j - 1, x, s.touched)
         ELSE [g |-> g, i |-> s.i + 1, j |-> s.j - 1, touched |-> s.touched]
    ELSE [g |-> g, i |-> s.i, j |-> s.j, touched |-> s.touched]

Partition(g, i, j, x, touched) ==
    IF i > j
    THEN [g |-> g, i |-> i, j |-> j, touched |-> touched]
    ELSE SwapAndGoOn(g, x, ScanDownAfter(g, j, x, ScanUp(g, i, j, x, touched)))

RECURSIVE QuickSortGroupByLoValue(_, _, _)

\* the array and the accesses of a recursive call, folded into the caller's
Sorted(part, r) == [part EXCEPT !.g = r.g, !.touched = @ \cup r.touched]

\* line 644
SortLeft(part, lo) ==
    IF lo < part.j
    THEN Sorted(part, QuickSortGroupByLoValue(part.g, lo, part.j))
    ELSE part

\* line 645
SortRight_Skipped(part, hi) == part

SortRight(part, hi) ==
    IF part.i < hi
    THEN Sorted(part, QuickSortGroupByLoValue(part.g, part.i, hi))
    ELSE part

\* lines 612-647; the pivot of line 616 is read before the test of line 618
QuickSortGroupByLoValue(g, lo, hi) ==
    IF ~InArray(g, CDiv(lo + hi, 2)) \/ hi < lo
    THEN [g |-> g, i |-> lo, j |-> hi, touched |-> {CDiv(lo + hi, 2)}]
    ELSE SortRight(SortLeft(Partition(g, lo, hi, At(g, CDiv(lo + hi, 2)).loValue,
                                      {CDiv(lo + hi, 2)}),
                            lo),
                   hi)

---------------------------------------------------------------------------
(* ComputeFDR, lines 535-609.                                              *)

\* line 540
ScanPassOf(nRandPass, gNum) == CDiv(nRandPass, gNum) + 1

\* lines 587-589: group i's fdr before the clamp and the sweep
RawFdr(loValue, pool, poolNum, i, gNum) ==
    Norm((bTreeSearchingF(DSub(loValue, EPS), pool, 0, poolNum - 1)
            + bTreeSearchingF(DAdd(loValue, EPS), pool, 0, poolNum - 1) + 1) * gNum,
         poolNum * (2 * i + 1))

\* lines 592-595
ClampLast(g, gNum) ==
    IF DLt(One, At(g, gNum - 1).fdr) THEN [g EXCEPT ![gNum].fdr = One] ELSE g

\* lines 597-603, from index i down
RECURSIVE Sweep_SkipsFirst(_, _)
Sweep_SkipsFirst(g, i) ==
    IF i < 1 THEN g
    ELSE Sweep_SkipsFirst(IF DLt(At(g, i + 1).fdr, At(g, i).fdr)
                          THEN [g EXCEPT ![i + 1].fdr = At(g, i + 1).fdr]
                          ELSE g,
                          i - 1)

RECURSIVE Sweep(_, _)
Sweep(g, i) ==
    IF i < 0 THEN g
    ELSE Sweep(IF DLt(At(g, i + 1).fdr, At(g, i).fdr)
               THEN [g EXCEPT ![i + 1].fdr = At(g, i + 1).fdr]
               ELSE g,
               i - 1)

\* lines 585-590
RawFdrs(g, gNum, pool) ==
    [i \in 1..gNum |->
        [g[i] EXCEPT !.fdr = RawFdr(g[i].loValue, pool, Len(pool), i - 1, gNum)]]

\* lines 585-608, given the sorted groups and the sorted pool
CalibrateFDR(qs, gNum, pool) ==
    [ret |-> 1,
     groups |-> Sweep(ClampLast(RawFdrs(qs.g, gNum, pool), gNum), gNum - 2),
     touched |-> qs.touched]

\* lines 581-608
FinishFDR(g, gNum, pool) ==
    CalibrateFDR(QuickSortGroupByLoValue(g, 0, gNum - 1), gNum,
                 QuicksortF(pool, 0, Len(pool) - 1))

---------------------------------------------------------------------------
(* main, lines 74-200, one action per stage it calls.                      *)

\* line 118
MaxPercentileInvalid_UpperOnly(m) == DLt(One, m)

MaxPercentileInvalid(m) == DLt(One, m) \/ DLt(m, Zero)

\* what malloc inside ComputeLoValue may do, and what memory that was never
\* assigned may hold
MallocOutcomes == IF mallocMayFail THEN BOOLEAN ELSE {TRUE}
Junk == {<<-1, 1>>, <<1, 2>>}
JunkFor(ok) == IF ok THEN {Zero} ELSE Junk

\* what Uniform(0.0, 1.0) may return
UniformDraws == {Norm(k, Grid) : k \in 1..(Grid - 1)}

\* the percentiles and the cutoffs on the grid
GridPoints == {Norm(k, Grid) : k \in 1..Grid}
Cutoffs == {Norm(k, Grid) : k \in 0..Grid}

\* lines 85-123
MainParse ==
    /\ pc = "main"
    /\ maxPercentile' = argv.p
    /\ IF ~argv.io \/ MaxPercentileInvalid(argv.p)
       THEN pc' = "done" /\ mainRet' = Returned(-1)
       ELSE pc' = "ReadFile" /\ mainRet' = mainRet
    /\ UNCHANGED <<argv, file, outOpens, mallocMayFail, groups, groupNum, lists,
                   listNum, numOfRandPass, scanPass, randLoValue, simI, simJ, calls,
                   loRets, sortTouched, output, loIn, loOut>>

\* lines 125-144
MainReadFile ==
    /\ pc = "ReadFile"
    /\ \E r \in {ReadFile(file, MAX_GROUP_NUM, MAX_LIST_NUM)} :
           /\ calls' = Append(calls, [fn |-> "ReadFile", ret |-> r.ret])
           /\ groups' = r.groups
           /\ groupNum' = r.groupNum
           /\ lists' = r.lists
           /\ listNum' = r.listNum
           /\ IF r.ret <= 0
              THEN pc' = "done" /\ mainRet' = Returned(-1)
              ELSE pc' = "ProcessGroups" /\ mainRet' = mainRet
    /\ UNCHANGED <<argv, file, outOpens, mallocMayFail, maxPercentile, numOfRandPass,
                   scanPass, randLoValue, simI, simJ, loRets, sortTouched, output,
                   loIn, loOut>>

\* lines 146-158
MainProcessGroups ==
    /\ pc = "ProcessGroups"
    /\ \E oks \in [1..groupNum -> MallocOutcomes] :
       \E junk \in [1..groupNum -> Junk \cup {Zero}] :
          /\ \A i \in 1..groupNum : junk[i] \in JunkFor(oks[i])
          /\ \E r \in {ProcessGroups(groups, groupNum, lists, listNum, maxPercentile,
                                      oks, junk)} :
                 /\ groups' = r.groups
                 /\ lists' = r.lists
                 /\ loRets' = r.rets
                 /\ calls' = Append(calls, [fn |-> "ProcessGroups", ret |-> r.ret])
                 /\ IF r.aborted
                    THEN pc' = "aborted" /\ mainRet' = mainRet
                    ELSE IF r.ret <= 0
                    THEN pc' = "done" /\ mainRet' = Returned(-1)
                    ELSE pc' = "ComputeFDR" /\ mainRet' = mainRet
    /\ UNCHANGED <<argv, file, outOpens, mallocMayFail, maxPercentile, groupNum,
                   listNum, numOfRandPass, scanPass, randLoValue, simI, simJ,
                   sortTouched, output, loIn, loOut>>

\* line 162: the call ComputeFDR(groups, groupNum, maxPercentile, RAND_PASS_NUM*groupNum)
MainComputeFDR ==
    /\ pc = "ComputeFDR"
    /\ numOfRandPass' = RAND_PASS_NUM * groupNum
    /\ pc' = "ComputeFDR.entry"
    /\ UNCHANGED <<argv, file, outOpens, mallocMayFail, maxPercentile, groups,
                   groupNum, lists, listNum, scanPass, randLoValue, simI, simJ, calls,
                   loRets, sortTouched, output, mainRet, loIn, loOut>>

\* lines 537-564: ComputeFDR up to the simulation loop
ComputeFDREntry ==
    /\ pc = "ComputeFDR.entry"
    /\ groupNum > 0
    /\ scanPass' = ScanPassOf(numOfRandPass, groupNum)
    /\ randLoValue' = <<>>
    /\ simI' = 0
    /\ simJ' = 0
    /\ loRets' = <<>>
    /\ IF (\A i \in 1..groupNum : groups[i].itemNum <= 0)
            \/ groupNum * ScanPassOf(numOfRandPass, groupNum) <= 0
       THEN pc' = "aborted"
       ELSE pc' = "ComputeFDR.simulate"
    /\ UNCHANGED <<argv, file, outOpens, mallocMayFail, maxPercentile, groups,
                   groupNum, lists, listNum, numOfRandPass, calls, sortTouched,
                   output, mainRet, loIn, loOut>>

\* lines 566-579: one turn of the inner loop over j, for pass i
ComputeFDRSimulate ==
    /\ pc = "ComputeFDR.simulate"
    /\ \E tmpPercentile \in [1..At(groups, simJ).itemNum -> UniformDraws] :
       \E ok \in MallocOutcomes :
       \E junk \in JunkFor(ok) :
       \E r \in {ComputeLoValue(tmpPercentile, At(groups, simJ).itemNum,
                                 maxPercentile, ok)} :
              /\ randLoValue' = Append(randLoValue,
                                       IF r.wrote THEN r.loValue ELSE junk)
              /\ loRets' = Append(loRets, r.ret)
    /\ IF simJ + 1 < groupNum
       THEN simJ' = simJ + 1 /\ simI' = simI /\ pc' = pc
       ELSE /\ simJ' = 0
            /\ simI' = simI + 1
            /\ pc' = IF simI + 1 < scanPass THEN pc ELSE "ComputeFDR.finish"
    /\ UNCHANGED <<argv, file, outOpens, mallocMayFail, maxPercentile, groups,
                   groupNum, lists, listNum, numOfRandPass, scanPass, calls,
                   sortTouched, output, mainRet, loIn, loOut>>

\* lines 581-608, and main's test of the result, lines 162-172
ComputeFDRFinish ==
    /\ pc = "ComputeFDR.finish"
    /\ \E r \in {FinishFDR(groups, groupNum, randLoValue)} :
           /\ groups' = r.groups
           /\ sortTouched' = r.touched
           /\ calls' = Append(calls, [fn |-> "ComputeFDR", ret |-> r.ret])
           /\ IF r.ret <= 0
              THEN pc' = "done" /\ mainRet' = Returned(-1)
              ELSE pc' = "SaveGroupInfo" /\ mainRet' = mainRet
    /\ UNCHANGED <<argv, file, outOpens, mallocMayFail, maxPercentile, groupNum,
                   lists, listNum, numOfRandPass, scanPass, randLoValue, simI, simJ,
                   loRets, output, loIn, loOut>>

\* no output file yet, and the output file holding the given rows
NoOutput == [written |-> FALSE, rows |-> <<>>]
Written(rows) == [written |-> TRUE, rows |-> rows]

\* SaveGroupInfo, lines 415-438
SaveGroupInfo(fileOpens, gs, gNum) ==
    IF ~fileOpens
    THEN [ret |-> -1, written |-> <<>>]
    ELSE [ret |-> 1,
          written |-> [i \in 1..gNum |->
                          [name |-> gs[i].name, itemNum |-> gs[i].itemNum,
                           loValue |-> gs[i].loValue, fdr |-> gs[i].fdr]]]

\* lines 174-198
MainSaveGroupInfo ==
    /\ pc = "SaveGroupInfo"
    /\ LET r == SaveGroupInfo(outOpens, groups, groupNum)
       IN  /\ output' = IF r.ret > 0 THEN Written(r.written) ELSE output
           /\ calls' = Append(calls, [fn |-> "SaveGroupInfo", ret |-> r.ret])
           /\ mainRet' = Returned(IF r.ret <= 0 THEN -1 ELSE 0)
    /\ pc' = "done"
    /\ UNCHANGED <<argv, file, outOpens, mallocMayFail, maxPercentile, groups,
                   groupNum, lists, listNum, numOfRandPass, scanPass, randLoValue,
                   simI, simJ, loRets, sortTouched, loIn, loOut>>

Next ==
    \/ MainParse
    \/ MainReadFile
    \/ MainProcessGroups
    \/ MainComputeFDR
    \/ ComputeFDREntry
    \/ ComputeFDRSimulate
    \/ ComputeFDRFinish
    \/ MainSaveGroupInfo

---------------------------------------------------------------------------
(* The inputs of a whole run.                                              *)

\* two raw values, half a bracket apart
MainValues == {Zero, Norm(1, 2 * EpsDen)}

MaxName(rows, field) ==
    IF rows = <<>> THEN 0
    ELSE CHOOSE m \in {rows[k][field] : k \in 1..Len(rows)} :
             \A k \in 1..Len(rows) : rows[k][field] <= m

Min(a, b) == IF a < b THEN a ELSE b

\* files of n rows with at most maxG groups and maxL lists; a row names a
\* group (a list) already seen, or the next new one, since names are only
\* ever compared for equality
RECURSIVE Files(_, _, _, _)
Files(n, values, maxG, maxL) ==
    IF n = 0 THEN {<<>>}
    ELSE UNION {{Append(f, [group |-> g, list |-> l, value |-> v]) :
                     g \in 1..Min(MaxName(f, "group") + 1, maxG),
                     l \in 1..Min(MaxName(f, "list") + 1, maxL),
                     v \in values} : f \in Files(n - 1, values, maxG, maxL)}

MainFiles ==
    {NoFile} \cup {FileOf(rows) :
                      rows \in UNION {Files(n, MainValues, n, n) : n \in 0..MaxRecords}}

\* -p below 0, inside [0,1], at 1, and above 1
MainCutoffs == {Norm(-1, Grid), Norm(1, Grid), One, Norm(Grid + 1, Grid)}

\* the files of a run in which malloc may fail
OomFiles ==
    {FileOf(rows) : rows \in UNION {Files(n, MainValues, n, n) : n \in 1..MaxOomRecords}}

InitRun(files) ==
    /\ pc = "main"
    /\ argv \in [io : BOOLEAN, p : MainCutoffs]
    /\ file \in files
    /\ outOpens \in BOOLEAN
    /\ maxPercentile = One
    /\ groups = <<>>
    /\ groupNum = 0
    /\ lists = <<>>
    /\ listNum = 0
    /\ numOfRandPass = 0
    /\ scanPass = 0
    /\ randLoValue = <<>>
    /\ simI = 0
    /\ simJ = 0
    /\ calls = <<>>
    /\ loRets = <<>>
    /\ sortTouched = {}
    /\ output = NoOutput
    /\ mainRet = Running
    /\ loIn = <<>>
    /\ loOut = <<>>

Init == InitRun(MainFiles) /\ mallocMayFail = FALSE

Spec == Init /\ [][Next]_vars

InitOOM == InitRun(OomFiles) /\ mallocMayFail = TRUE

SpecOOM == InitOOM /\ [][Next]_vars

StageNames == [k \in 1..Len(calls) |-> calls[k].fn]

InUnitInterval(m) == DLe(Zero, m) /\ DLe(m, One)

\* C6: the output file is written only after argument validation, ReadFile,
\* ProcessGroups and ComputeFDR have succeeded, in that order; with
\* maxPercentile outside [0,1] no stage is called at all; once a stage has
\* reported failure main returns -1 without calling SaveGroupInfo, and no
\* statistics stage runs after a failed ingestion.
C6_OutputOnlyAfterEveryStageSucceeded ==
    /\ output.written => \E k \in 1..Len(calls) : calls[k].fn = "SaveGroupInfo"
    /\ (\E k \in 1..Len(calls) : calls[k].fn = "SaveGroupInfo") =>
          /\ argv.io /\ InUnitInterval(argv.p)
          /\ StageNames = <<"ReadFile", "ProcessGroups", "ComputeFDR", "SaveGroupInfo">>
          /\ \A k \in 1..3 : calls[k].ret > 0
    /\ ~InUnitInterval(argv.p) => calls = <<>> /\ (pc = "done" <=> mainRet = Returned(-1))
    /\ (calls # <<>> /\ calls[1].ret <= 0) =>
          /\ Len(calls) = 1 /\ calls[1].fn = "ReadFile"
          /\ pc = "done" /\ mainRet = Returned(-1)
    /\ \A k \in 1..Len(calls) :
          calls[k].ret <= 0 =>
              /\ k = Len(calls)
              /\ pc = "done" /\ mainRet = Returned(-1)
              /\ ~output.written

\* a run that went through every stage and wrote the output file
C6_Witness ==
    /\ pc = "done"
    /\ mainRet = Returned(0)
    /\ output.written
    /\ Len(output.rows) = groupNum

DistinctNames(rows, field) == Cardinality({rows[k][field] : k \in 1..Len(rows)})

\* C8: ReadFile reports the capacity error exactly when the file names more
\* than maxGroupNum distinct groups or more than maxListNum distinct lists;
\* a file with at most that many of each, the maximum included, is ingested.
C8_CapacityErrorOnlyWhenExceeded ==
    (calls # <<>> /\ file.exists) =>
        (calls[1].ret < 0 <=>
            \/ DistinctNames(file.rows, "group") > MAX_GROUP_NUM
            \/ DistinctNames(file.rows, "list") > MAX_LIST_NUM)

\* C7: a stage that reports success has had no ComputeLoValue call return -1:
\* ProcessGroups (loRets at "ComputeFDR") and ComputeFDR (loRets at
\* "SaveGroupInfo") stop and report failure instead.
C7_LoValueFailureAbortsStage ==
    (pc \in {"ComputeFDR", "SaveGroupInfo"} /\ calls[Len(calls)].ret > 0) =>
        \A k \in 1..Len(loRets) : loRets[k] >= 0

---------------------------------------------------------------------------
(* ProcessGroups on its own, on what ReadFile makes of a file.             *)

PctValues == {Norm(v, 2 * EpsDen) : v \in 0..MaxPctValue}

PctFiles == UNION {Files(n, PctValues, 1, 2) : n \in 1..MaxPctRecords}

\* the state main is in when it calls stage, having read rows with room to spare
InitAt(stage, rows, readIn) ==
    /\ pc = stage
    /\ argv = [io |-> TRUE, p |-> maxPercentile]
    /\ file = FileOf(rows)
    /\ outOpens = TRUE
    /\ mallocMayFail = FALSE
    /\ groupNum = readIn.groupNum
    /\ lists = readIn.lists
    /\ listNum = readIn.listNum
    /\ scanPass = 0
    /\ randLoValue = <<>>
    /\ simI = 0
    /\ simJ = 0
    /\ sortTouched = {}
    /\ output = NoOutput
    /\ mainRet = Running
    /\ loIn = <<>>
    /\ loOut = <<>>

InitPct ==
    /\ maxPercentile = Norm(1, Grid)
    /\ \E rows \in PctFiles :
       \E r \in {ReadFile(FileOf(rows), Len(rows) + 1, Len(rows) + 1)} :
              /\ InitAt("ProcessGroups", rows, r)
              /\ groups = r.groups
              /\ calls = <<[fn |-> "ReadFile", ret |-> r.ret]>>
    /\ numOfRandPass = 0
    /\ loRets = <<>>

SpecPct == InitPct /\ [][MainProcessGroups]_vars

\* every item of the run, with the list it is ranked in
AllItems ==
    UNION {{[item |-> groups[i].items[k], list |-> At(lists, groups[i].items[k].listIndex)] :
                k \in 1..groups[i].itemNum} : i \in 1..groupNum}

\* how many entries of list l satisfy P
CountIn(l, P(_)) == Cardinality({k \in 1..l.itemNum : P(l.values[k])})

---------------------------------------------------------------------------
(* ComputeFDR on its own, on what ReadFile and ProcessGroups make of a     *)
(* file with one list.                                                     *)

\* raw values more than the bracket apart
FdrValues == {Norm(3 * v, 2 * EpsDen) : v \in 0..2}

FdrFiles == UNION {Files(n, FdrValues, n, 1) : n \in 1..MaxFdrRecords}

AllTrue(n) == [i \in 1..n |-> TRUE]
NoJunk(n) == [i \in 1..n |-> Zero]

InitFDR ==
    /\ maxPercentile \in {Norm(1, Grid), One}
    /\ \E rows \in FdrFiles :
       \E r \in {ReadFile(FileOf(rows), Len(rows) + 1, Len(rows) + 1)} :
       \E g \in {ProcessGroups(r.groups, r.groupNum, r.lists, r.listNum,
                                maxPercentile, AllTrue(r.groupNum), NoJunk(r.groupNum))} :
              /\ InitAt("ComputeFDR.entry", rows, r)
              /\ numOfRandPass \in 0..(RAND_PASS_NUM * r.groupNum)
              /\ groups = g.groups
              /\ loRets = g.rets
              /\ calls = <<[fn |-> "ReadFile", ret |-> r.ret],
                           [fn |-> "ProcessGroups", ret |-> g.ret]>>

NextFDR == ComputeFDREntry \/ ComputeFDRSimulate \/ ComputeFDRFinish

SpecFDR == InitFDR /\ [][NextFDR]_vars

GroupsAscending(g) == \A i \in 1..(Len(g) - 1) : DLe(g[i].loValue, g[i + 1].loValue)

\* C1: when ComputeFDR has returned, along the groups in their final order
\* fdr never decreases, the last fdr is <= 1, and every fdr is in [0,1].
C1_FdrMonotoneWithinUnitInterval ==
    pc = "SaveGroupInfo" =>
        /\ groupNum >= 1
        /\ GroupsAscending(groups)
        /\ \A i \in 1..(groupNum - 1) : DLe(groups[i].fdr, groups[i + 1].fdr)
        /\ DLe(groups[groupNum].fdr, One)
        /\ \A i \in 1..groupNum : DLe(Zero, groups[i].fdr) /\ DLe(groups[i].fdr, One)

\* three or more groups whose fdr rises strictly somewhere and ends at 1
C1_Witness ==
    /\ pc = "SaveGroupInfo"
    /\ groupNum >= 3
    /\ DLt(groups[1].fdr, groups[2].fdr)
    /\ groups[2].fdr = groups[3].fdr
    /\ groups[groupNum].fdr = One

\* the least whole number not below n/d
CeilDiv(n, d) == (n + d - 1) \div d

\* C9: the number of simulation passes is the ceiling of
\* numOfRandPass / groupNum, and the pool holds groupNum times that many
\* synthetic lo-values.
C9_ScanPassIsCeiling ==
    /\ pc \in {"ComputeFDR.simulate", "ComputeFDR.finish"}
          => scanPass = CeilDiv(numOfRandPass, groupNum)
    /\ pc = "ComputeFDR.finish"
          => Len(randLoValue) = groupNum * CeilDiv(numOfRandPass, groupNum)

---------------------------------------------------------------------------
(* The sorting and calibrating step of ComputeFDR on its own: groups of    *)
(* one item each, whose loValue is then the item's percentile, after one   *)
(* simulation pass.  ComputeFDR reads nothing of the lists.                *)

SortGroup(name, lo) ==
    [name |-> name,
     items |-> <<[name |-> name, listIndex |-> 0, value |-> lo, percentile |-> lo]>>,
     itemNum |-> 1,
     loValue |-> lo,
     fdr |-> Uninit]

InitSort ==
    /\ pc = "ComputeFDR.finish"
    /\ maxPercentile = One
    /\ argv = [io |-> TRUE, p |-> One]
    /\ \E n \in 1..MaxSortLen : \E los \in [1..n -> GridPoints] :
          /\ groups = [i \in 1..n |-> SortGroup(i, los[i])]
          /\ groupNum = n
          /\ file = FileOf([i \in 1..n |-> [group |-> i, list |-> 1, value |-> los[i]]])
          /\ randLoValue = [i \in 1..n |-> Norm(1, Grid)]
          /\ loRets = [i \in 1..n |-> 0]
    /\ outOpens = TRUE
    /\ mallocMayFail = FALSE
    /\ lists = <<>>
    /\ listNum = 0
    /\ numOfRandPass = 0
    /\ scanPass = 1
    /\ simI = 1
    /\ simJ = 0
    /\ calls = <<[fn |-> "ReadFile", ret |-> groupNum], [fn |-> "ProcessGroups", ret |-> 1]>>
    /\ sortTouched = {}
    /\ output = NoOutput
    /\ mainRet = Running
    /\ loIn = <<>>
    /\ loOut = <<>>

SpecSort == InitSort /\ [][ComputeFDRFinish]_vars

\* a GROUP_STRUCT without its fdr
Identity(g) == [name |-> g.name, items |-> g.items, itemNum |-> g.itemNum,
                loValue |-> g.loValue]

\* C2: the step of ComputeFDR that sorts leaves the same groups (names, items,
\* item counts, loValues), none lost or duplicated, in ascending order of
\* loValue, and QuickSortGroupByLoValue accesses no index outside
\* [0, groupNum-1].
C2_SortRearrangesAscending ==
    [][pc = "ComputeFDR.finish" =>
          /\ SameElements([i \in 1..groupNum |-> Identity(groups[i])],
                          [i \in 1..groupNum |-> Identity(groups'[i])])
          /\ Len(groups') = groupNum
          /\ GroupsAscending(groups')
          /\ sortTouched' # {}
          /\ sortTouched' \subseteq 0..(groupNum - 1)]_vars

\* five groups given in descending order of loValue, two of them tied, and
\* now in ascending order
C2_Witness ==
    /\ pc = "SaveGroupInfo"
    /\ groupNum = 5
    /\ \A i \in 1..(groupNum - 1) :
          /\ groups[i].name > groups[i + 1].name \/ groups[i].loValue = groups[i + 1].loValue
          /\ DLe(groups[i].loValue, groups[i + 1].loValue)
    /\ \E i \in 1..(groupNum - 1) : groups[i].loValue = groups[i + 1].loValue
    /\ DLt(groups[1].loValue, groups[groupNum].loValue)
    /\ sortTouched = 0..4

---------------------------------------------------------------------------
(* ComputeLoValue on its own: one percentile array, every cutoff.          *)

InitIdle ==
    /\ argv = [io |-> TRUE, p |-> One]
    /\ file = NoFile
    /\ outOpens = TRUE
    /\ mallocMayFail = FALSE
    /\ maxPercentile = One
    /\ groups = <<>>
    /\ groupNum = 0
    /\ lists = <<>>
    /\ listNum = 0
    /\ numOfRandPass = 0
    /\ scanPass = 0
    /\ randLoValue = <<>>
    /\ simI = 0
    /\ simJ = 0
    /\ calls = <<>>
    /\ loRets = <<>>
    /\ sortTouched = {}
    /\ output = NoOutput
    /\ mainRet = Running

InitLo ==
    /\ InitIdle
    /\ pc = "ComputeLoValue"
    /\ \E n \in 1..MaxLoLen : loIn \in [1..n -> GridPoints]
    /\ loOut = <<>>

\* one call ComputeLoValue(loIn, Len(loIn), &out, m)
CallComputeLoValue ==
    /\ pc = "ComputeLoValue"
    /\ \E m \in Cutoffs \ DOMAIN loOut :
          LET r == ComputeLoValue(loIn, Len(loIn), m, TRUE)
          IN  /\ loIn' = r.percentiles
              /\ loOut' = loOut @@ (m :> [given |-> loIn, ret |-> r.ret,
                                           loValue |-> r.loValue,
                                           percentiles |-> r.percentiles,
                                           scanned |-> r.scanned])
    /\ UNCHANGED <<pc, argv, file, outOpens, mallocMayFail, maxPercentile, groups,
                   groupNum, lists, listNum, numOfRandPass, scanPass, randLoValue,
                   simI, simJ, calls, loRets, sortTouched, output, mainRet>>

SpecLo == InitLo /\ [][CallComputeLoValue]_vars

\* the ascending rearrangement of a, found by search rather than by sorting
Ascending(a) ==
    CHOOSE s \in [1..Len(a) -> {a[k] : k \in 1..Len(a)}] :
        IsAscending(s) /\ SameElements(s, a)

\* the least of the CDF values at the indices in S of the ascending array s
MinCdfOver(s, S) ==
    LET v(i) == BetaNoncentralCdf(i + 1, Len(s) - i, 0, At(s, i))
    IN  CHOOSE x \in {v(i) : i \in S} : \A i \in S : DLe(x, v(i))

\* C5: for one percentile array, the loValue ComputeLoValue produces with a
\* larger cutoff maxPercentile is <= the one it produces with a smaller
\* cutoff, for every pair of cutoffs m1 <= m2 in [0,1].
C5_LoValueMonotoneInCutoff ==
    \A m1 \in DOMAIN loOut : \A m2 \in DOMAIN loOut :
        DLe(m1, m2) => DLe(loOut[m2].loValue, loOut[m1].loValue)

\* two cutoffs computed, the larger one scanning more and giving a strictly
\* smaller loValue
C5_Witness ==
    \E m1 \in DOMAIN loOut : \E m2 \in DOMAIN loOut :
        /\ DLt(m1, m2)
        /\ loOut[m1].scanned # loOut[m2].scanned
        /\ DLt(loOut[m2].loValue, loOut[m1].loValue)

=============================================================================
